---- MODULE Spec2Model ----
(***************************************************************************)
(* CSV intake, validation and metrics core of ai-business-automation:      *)
(* app/services/csv_service.py, app/routes/csv_routes.py and the           *)
(* CsvUpload record of app/models/dt_csv_upload.py.                        *)
(*                                                                         *)
(* A CSV file is a header (sequence of raw column names) and a sequence of *)
(* rows, each row a sequence of raw cells aligned with the header.  Cells  *)
(* and names are strings; what pandas does to them (strip, upper, strict   *)
(* date parse, numeric parse) is given per token of a finite alphabet.     *)
(***************************************************************************)
EXTENDS Integers, Sequences, FiniteSets, TLC

VARIABLES
    records,    \* csv_uploads table: id -> committed CsvUpload row
    fs,         \* file storage: path -> file content
    spc,        \* save_upload call of each request slot: position in the function
    slocal,     \* save_upload call: its arguments and the id it obtained
    vpc,        \* validate_upload call of each request slot: position
    vlocal,     \* validate_upload call: the record id and what it computed from the file
    ret,        \* what the last finished service call returned (or that it raised)
    inbox,      \* the submissions clients may send
    quota       \* uploads the clients may still have accepted

vars == <<records, fs, spc, slocal, vpc, vlocal, ret, inbox, quota>>

(***************************************************************************)
(* Bounds of the model.                                                    *)
(***************************************************************************)
\* MAX_CSV_ROWS of the configuration, scaled down (the shipped default is 100).
MAX_ROWS == 2
\* Uploads started in one behaviour of the lifecycle specification.
MaxUploads == 2

Min(a, b) == IF a < b THEN a ELSE b
Range(s) == {s[i] : i \in 1..Len(s)}
SeqsUpTo(S, n) == UNION {[1..k -> S] : k \in 0..n}

(***************************************************************************)
(* Schema registry.                                                        *)
(***************************************************************************)
REQ_SALES == <<"invoice_id", "invoice_date", "customer_id", "item_id", "qty", "unit_price">>
REQ_INV == <<"move_id", "move_date", "item_id", "type", "qty", "unit_cost">>
TYPES == {"sales", "inventory"}
REQUIRED(csv_type) == IF csv_type = "sales" THEN REQ_SALES ELSE REQ_INV

(***************************************************************************)
(* Token alphabets and the string conversions of the code on them.         *)
(***************************************************************************)
IsoDates == {"2024-01-01", "2024-01-02"}
NumberCells == {"0", "1", "2", "3", "5", "7", "-1", "1.5", "30", "100"}

\* str(c).strip() of a header name
Strip(c) ==
    CASE c = " qty" -> "qty"
      [] c = "unit_price " -> "unit_price"
      [] c = " type " -> "type"
      [] c = " note " -> "note"
      [] OTHER -> c

\* .astype(str).str.upper().str.strip() of a movement-type cell; an empty cell is NaN -> "nan"
UpperStrip(t) ==
    CASE t = "in" -> "IN"
      [] t = " out " -> "OUT"
      [] t = "Adj" -> "ADJ"
      [] t = "xfer" -> "XFER"
      [] t = "" -> "NAN"
      [] OTHER -> t

\* pd.to_datetime(col, format="%Y-%m-%d", errors="raise") accepts the cell (empty = NaN -> NaT)
StrictDateOk(cell) == cell \in IsoDates \cup {""}

\* pd.to_numeric(col, errors="raise") accepts the cell (empty = NaN)
NumericOk(cell) == cell \in NumberCells \cup {""}

\* the float of a whole number, kept exact as the fraction num / den
Whole(n) == [num |-> n, den |-> 1]

\* the number a numeric cell denotes; NaN and unparsable cells are filled with 0 by the metrics
NumVal(cell) ==
    CASE cell = "0" -> Whole(0)
      [] cell = "1" -> Whole(1)
      [] cell = "2" -> Whole(2)
      [] cell = "3" -> Whole(3)
      [] cell = "5" -> Whole(5)
      [] cell = "7" -> Whole(7)
      [] cell = "-1" -> Whole(0 - 1)
      [] cell = "1.5" -> [num |-> 3, den |-> 2]
      [] cell = "30" -> Whole(30)
      [] cell = "100" -> Whole(100)
      [] OTHER -> Whole(0)

(***************************************************************************)
(* pandas.read_csv                                                         *)
(***************************************************************************)
NoFile == [header |-> <<>>, rows |-> <<>>]

\* pd.read_csv raises EmptyDataError on a file without a header line
ReadCsvRaises(file) == Len(file.header) = 0

\* position of the column a name selects (the first one of that raw name)
ColIndex(header, name) == CHOOSE i \in 1..Len(header) :
    /\ header[i] = name
    /\ \A j \in 1..(i - 1) : header[j] # name

\* pd.read_csv(path, usecols=req) raises ValueError when a name of req is no raw column name
UseColsRaises(file, req) == \E c \in Range(req) : c \notin Range(file.header)

UseColsByPosition(file, req) ==
    [r \in 1..Len(file.rows) |->
        [c \in Range(req) |-> file.rows[r][CHOOSE i \in 1..Len(req) : req[i] = c]]]

\* pd.read_csv(path, usecols=req): the data frame, one record per data row, columns by name
UseCols(file, req) ==
    [r \in 1..Len(file.rows) |->
        [c \in Range(req) |-> file.rows[r][ColIndex(file.header, c)]]]

\* _read_head_and_headers: (cols, missing, too_many_rows) after reading at most MAX_ROWS + 1 rows
ReadHeadAndHeaders(file, req) ==
    LET nread == Min(Len(file.rows), MAX_ROWS + 1)
        cols == [i \in 1..Len(file.header) |-> Strip(file.header[i])]
    IN [cols |-> cols,
        missing |-> SelectSeq(req, LAMBDA c : c \notin Range(cols)),
        too_many_rows |-> nread > MAX_ROWS,
        rows_read |-> nread]

(***************************************************************************)
(* CsvUpload rows.  A nullable column holds its null value until set:      *)
(* row_count NoCount, error_msg / detected_columns / content_sha256 the    *)
(* empty sequence, csv_path the empty path, validated_at NoTime.          *)
(***************************************************************************)
NoCount == 0 - 1
NoText == <<>>
\* validated_at of a record never validated
NoTime == 0
EmptyPath == [kind |-> "", id |-> 0, name |-> ""]

\* os.path.join(folder, f"tmp_{original}")
TmpPath(original) == [kind |-> "tmp", id |-> 0, name |-> original]

FinalPathByType(id, csv_type, original) == [kind |-> "final", id |-> 0, name |-> csv_type]

FinalPathByName(id, csv_type, original) == [kind |-> "final", id |-> 0, name |-> original]

\* os.path.join(folder, f"{rec.id}-{csv_type}.csv")
FinalPath(id, csv_type, original) == [kind |-> "final", id |-> id, name |-> csv_type]

\* _sha256_file: the fingerprint of the bytes, collision-free
Sha256(file) == <<file>>

\* secure_filename on the submitted names
SecureFilename(filename) ==
    CASE filename = "my data.csv" -> "my_data.csv"
      [] OTHER -> filename

\* "." in filename
HasDot(filename) == filename # "csv"

\* filename.rsplit(".", 1)[1] of the submitted names
AfterLastDot(filename) ==
    CASE filename = "DATA.CSV" -> "CSV"
      [] filename = "notes.txt" -> "txt"
      [] filename = "data.csv.bak" -> "bak"
      [] OTHER -> "csv"

\* str.lower
Lower(x) == IF x = "CSV" THEN "csv" ELSE x

AllowedFileAnyDot(filename) == HasDot(filename)

\* _allowed_file: "." in filename and the text after the last "." lower-cased is "csv"
AllowedFile(filename) == HasDot(filename) /\ Lower(AfterLastDot(filename)) = "csv"

NewRecordPathFinal(id, csv_type, original) == FinalPath(id, csv_type, original)

\* csv_path of the row save_upload first commits: "", filled once the id is known
NewRecordPath(id, csv_type, original) == EmptyPath

\* the CsvUpload row save_upload creates
NewRecord(id, csv_type, original, batch_id) ==
    [csv_type |-> csv_type,
     csv_path |-> NewRecordPath(id, csv_type, original),
     original_filename |-> original,
     row_count |-> NoCount,
     content_sha256 |-> NoText,
     detected_columns |-> NoText,
     status |-> "uploaded",
     error_msg |-> NoText,
     batch_id |-> batch_id,
     validated_at |-> NoTime]

\* datetime.utcnow(): a time later than every time stored
Now ==
    LET times == {records[i].validated_at : i \in DOMAIN records} \cup {NoTime}
    IN 1 + CHOOSE t \in times : \A u \in times : u <= t

\* the stored times keep their order only: each becomes its rank among the times stored
Ranked(recs) ==
    LET times == {recs[j].validated_at : j \in DOMAIN recs}
    IN [i \in DOMAIN recs |->
          [recs[i] EXCEPT !.validated_at = Cardinality({t \in times : NoTime < t /\ t <= @})]]

(***************************************************************************)
(* validate_upload: what it computes from the stored file.                 *)
(***************************************************************************)
\* the exception the try block raises on the data frame; NoText when it raises none
TypeDateError(csv_type, df) ==
    LET date_col == IF csv_type = "sales" THEN "invoice_date" ELSE "move_date"
        num_cols == IF csv_type = "sales" THEN {"qty", "unit_price"} ELSE {"qty", "unit_cost"}
    IN IF \E r \in 1..Len(df) : ~StrictDateOk(df[r][date_col])
       THEN <<"type/date error", "date">>
       ELSE IF \E r \in 1..Len(df) : \E c \in num_cols : ~NumericOk(df[r][c])
       THEN <<"type/date error", "numeric">>
       ELSE IF csv_type = "inventory"
               /\ \E r \in 1..Len(df) : UpperStrip(df[r]["type"]) \notin {"IN", "OUT", "ADJ"}
       THEN <<"type/date error", "type must be IN|OUT|ADJ">>
       ELSE NoText

Outcome(branch, raised, ok, cols, missing, error, row_count, rows_read) ==
    [branch |-> branch, raised |-> raised, ok |-> ok, cols |-> cols, missing |-> missing,
     error |-> error, row_count |-> row_count, rows_read |-> rows_read]

RowLimitOff(n) == n > MAX_ROWS + 1

\* len(df) > _max_rows()
RowLimitExceeded(n) == n > MAX_ROWS

ValidateOutcomeTypesFirst(csv_type, file) ==
    LET req == REQUIRED(csv_type)
        head == ReadHeadAndHeaders(file, req)
        df == UseCols(file, req)
        err == TypeDateError(csv_type, df)
    IN IF ReadCsvRaises(file)
       THEN Outcome("raise", TRUE, FALSE, NoText, NoText, <<"EmptyDataError">>, NoCount, 0)
       ELSE IF head.missing # <<>>
       THEN Outcome("missing", FALSE, FALSE, head.cols, head.missing,
                    <<"Missing columns">> \o head.missing, NoCount, head.rows_read)
       ELSE IF UseColsRaises(file, req)
       THEN Outcome("raise", TRUE, FALSE, head.cols, NoText, <<"ValueError">>, NoCount,
                    head.rows_read)
       ELSE IF err # NoText
       THEN Outcome("typedate", FALSE, FALSE, head.cols, NoText, err, NoCount, Len(df))
       ELSE IF RowLimitExceeded(Len(df))
       THEN Outcome("rowlimit", FALSE, FALSE, head.cols, NoText, <<"Row limit exceeded">>,
                    NoCount, Len(df))
       ELSE Outcome("validated", FALSE, TRUE, head.cols, NoText, NoText, Len(df), Len(df))

\* the branch validate_upload takes on a file, and what it returns
ValidateOutcome(csv_type, file) ==
    LET req == REQUIRED(csv_type)
        head == ReadHeadAndHeaders(file, req)
        df == UseCols(file, req)
        err == TypeDateError(csv_type, df)
    IN IF ReadCsvRaises(file)
       THEN Outcome("raise", TRUE, FALSE, NoText, NoText, <<"EmptyDataError">>, NoCount, 0)
       ELSE IF head.missing # <<>>
       THEN Outcome("missing", FALSE, FALSE, head.cols, head.missing,
                    <<"Missing columns">> \o head.missing, NoCount, head.rows_read)
       ELSE IF UseColsRaises(file, req)
       THEN Outcome("raise", TRUE, FALSE, head.cols, NoText, <<"ValueError">>, NoCount,
                    head.rows_read)
       ELSE IF RowLimitExceeded(Len(df))
       THEN Outcome("rowlimit", FALSE, FALSE, head.cols, NoText, <<"Row limit exceeded">>,
                    NoCount, Len(df))
       ELSE IF err # NoText
       THEN Outcome("typedate", FALSE, FALSE, head.cols, NoText, err, NoCount, Len(df))
       ELSE Outcome("validated", FALSE, TRUE, head.cols, NoText, NoText, Len(df), Len(df))

(***************************************************************************)
(* validate_upload: what each branch assigns to the record and commits.    *)
(***************************************************************************)
InvalidKeepsNoError(rec, out) ==
    [rec EXCEPT !.status = "invalid", !.detected_columns = out.cols, !.validated_at = Now]

InvalidSetsCount(rec, out) ==
    [rec EXCEPT !.status = "invalid", !.error_msg = out.error,
                !.row_count = out.rows_read,
                !.detected_columns = out.cols, !.validated_at = Now]

InvalidAsFailed(rec, out) ==
    [rec EXCEPT !.status = "failed", !.error_msg = out.error,
                !.detected_columns = out.cols, !.validated_at = Now]

InvalidRawHeader(rec, out) ==
    [rec EXCEPT !.status = "invalid", !.error_msg = out.error,
                !.detected_columns = fs[rec.csv_path].header, !.validated_at = Now]

\* the three invalid branches: status, error_msg, detected_columns, validated_at
InvalidUpdate(rec, out) ==
    [rec EXCEPT !.status = "invalid", !.error_msg = out.error,
                !.detected_columns = out.cols, !.validated_at = Now]

ValidatedAccumulates(rec, out) ==
    [rec EXCEPT !.status = "validated",
                !.row_count = out.row_count + (IF rec.row_count = NoCount THEN 0 ELSE rec.row_count),
                !.detected_columns = out.cols, !.validated_at = Now]

\* the success branch: status, row_count, detected_columns, validated_at
ValidatedUpdate(rec, out) ==
    [rec EXCEPT !.status = "validated", !.row_count = out.row_count,
                !.detected_columns = out.cols, !.validated_at = Now]

ApplyOutcome(rec, out) ==
    IF out.ok THEN ValidatedUpdate(rec, out) ELSE InvalidUpdate(rec, out)

(***************************************************************************)
(* The files clients submit.                                               *)
(***************************************************************************)
SalesRow(inv, d, item, qty, price) ==
    [invoice_id |-> inv, invoice_date |-> d, customer_id |-> "c1", item_id |-> item,
     qty |-> qty, unit_price |-> price]

InvRow(mv, d, item, t, qty, cost) ==
    [move_id |-> mv, move_date |-> d, item_id |-> item, type |-> t, qty |-> qty,
     unit_cost |-> cost]

SalesRows ==
    {SalesRow("A", "2024-01-01", "i1", "2", "5"),
     SalesRow("B", "2024-01-02", "i2", "1", "3"),
     SalesRow("A", "2024-01-02", "i2", "1", "5"),
     SalesRow("C", "01/02/2024", "i1", "1", "3"),
     SalesRow("C", "2024-01-01", "i1", "abc", "3"),
     SalesRow("C", "2024-01-02", "i1", "-1", "7"),
     SalesRow("D", "", "i2", "", "3")}

InvRows ==
    {InvRow("m1", "2024-01-01", "i1", "IN", "2", "5"),
     InvRow("m2", "2024-01-02", "i1", "OUT", "1", "7"),
     InvRow("m3", "2024-01-01", "i2", "Adj", "1", "3"),
     InvRow("m4", "2024-01-02", "i2", " out ", "1", "3"),
     InvRow("m5", "2024-01-02", "i2", "xfer", "1", "3"),
     InvRow("m6", "01/02/2024", "i1", "IN", "1", "3"),
     InvRow("m7", "2024-01-01", "i1", "in", "1", "abc")}

\* the cell a row holds under a raw column name; a column outside the schema holds "x"
Cell(row, name) == IF Strip(name) \in DOMAIN row THEN row[Strip(name)] ELSE "x"

\* the CSV file with this header whose lines are these rows
MkFile(header, rows) ==
    [header |-> header,
     rows |-> [r \in 1..Len(rows) |-> [i \in 1..Len(header) |-> Cell(rows[r], header[i])]]]

Drop(s, k) == [i \in 1..(Len(s) - 1) |-> IF i < k THEN s[i] ELSE s[i + 1]]
Rename(s, k, name) == [s EXCEPT ![k] = name]
Reverse(s) == [i \in 1..Len(s) |-> s[Len(s) + 1 - i]]

GoodRows(csv_type, n) ==
    [i \in 1..n |-> IF csv_type = "sales" THEN SalesRow("A", "2024-01-01", "i1", "2", "5")
                    ELSE InvRow("m1", "2024-01-01", "i1", "IN", "2", "5")]

\* headers that differ from the registry's: a column dropped, extras added, reordered, padded
HeaderVariants(csv_type) ==
    LET req == REQUIRED(csv_type)
    IN {Drop(req, k) : k \in 1..Len(req)}
       \cup {Drop(Drop(req, 5), 1), Drop(req, 2) \o <<" note ">>, <<"note">> \o Drop(req, 6)}
       \cup {req \o <<"note">>, <<" note ">> \o req, Reverse(req), <<"note">> \o req \o <<" qty">>}
       \cup {Rename(req, 5, " qty"), <<"note">>}

\* every file of a type the model submits
FilesOf(csv_type) ==
    LET req == REQUIRED(csv_type)
        rowset == IF csv_type = "sales" THEN SalesRows ELSE InvRows
    IN {MkFile(req, rows) : rows \in SeqsUpTo(rowset, MAX_ROWS + 1)}
       \cup {MkFile(req, GoodRows(csv_type, n)) : n \in {MAX_ROWS + 2, MAX_ROWS + 3}}
       \cup {MkFile(h, GoodRows(csv_type, n)) :
                h \in HeaderVariants(csv_type), n \in {1, MAX_ROWS, MAX_ROWS + 1}}
       \cup {NoFile}

Submission(file, csv_type, filename, batch_id) ==
    [file |-> file, csv_type |-> csv_type, filename |-> filename, batch_id |-> batch_id]

\* one submission per file and type, for the specification that validates each file alone
AllSubmissions ==
    {Submission(f, t, "data.csv", "b1") : f \in FilesOf("sales"), t \in {"sales"}}
    \cup {Submission(f, t, "data.csv", "b1") : f \in FilesOf("inventory"), t \in {"inventory"}}

\* the submissions of the lifecycle specifications: a valid file, one lacking a column, an
\* empty one, and two that save_upload rejects
FewSubmissions ==
    {Submission(MkFile(REQ_SALES, GoodRows("sales", 1)), "sales", "data.csv", "b1"),
     Submission(MkFile(Drop(REQ_INV, 5), GoodRows("inventory", 1)), "inventory", "my data.csv", "b1"),
     Submission(NoFile, "sales", "data.csv", ""),
     Submission(MkFile(REQ_SALES, GoodRows("sales", 1)), "returns", "data.csv", ""),
     Submission(MkFile(REQ_SALES, GoodRows("sales", 1)), "sales", "notes.txt", "")}

\* the submissions of the specification of all operations: valid and invalid files of a batch
CoreSubmissions ==
    {Submission(MkFile(REQ_SALES, GoodRows("sales", 1)), "sales", "data.csv", "b1"),
     Submission(MkFile(REQ_INV, GoodRows("inventory", 1)), "inventory", "data.csv", "b1"),
     Submission(MkFile(Drop(REQ_SALES, 5), GoodRows("sales", 1)), "sales", "data.csv", "b1"),
     Submission(MkFile(REQ_INV, GoodRows("inventory", MAX_ROWS + 1)), "inventory", "data.csv", "")}

\* the names and record types clients give an upload, each with the same valid sales file
IntakeSubmissions ==
    {Submission(MkFile(REQ_SALES, GoodRows("sales", 1)), t, n, "b1") :
        t \in {"sales", "inventory", "returns", "SALES"},
        n \in {"data.csv", "DATA.CSV", "my data.csv", "notes.txt", "csv", "data.csv.bak"}}

\* the submissions of the batch specification: sales files with disjoint and with shared
\* invoice ids, an inventory file, a file lacking a column, a file of another batch, and two
\* sales files with a fractional quantity
BatchSubmissions ==
    LET a == SalesRow("A", "2024-01-01", "i1", "2", "5")
        b == SalesRow("B", "2024-01-02", "i2", "1", "3")
        a2 == SalesRow("A", "2024-01-02", "i2", "1", "5")
        m == InvRow("m1", "2024-01-01", "i1", "IN", "2", "5")
        d == SalesRow("D", "2024-01-01", "i1", "1.5", "2")
        e == SalesRow("E", "2024-01-02", "i2", "1.5", "2")
    IN {Submission(MkFile(REQ_SALES, <<a>>), "sales", "data.csv", "b1"),
        Submission(MkFile(REQ_SALES, <<b>>), "sales", "data.csv", "b1"),
        Submission(MkFile(REQ_SALES, <<a2, b>>), "sales", "data.csv", "b1"),
        Submission(MkFile(REQ_INV, <<m>>), "inventory", "data.csv", "b1"),
        Submission(MkFile(Drop(REQ_SALES, 5), <<a>>), "sales", "data.csv", "b1"),
        Submission(MkFile(REQ_SALES, <<b>>), "sales", "data.csv", "b2"),
        Submission(MkFile(REQ_SALES, <<d>>), "sales", "data.csv", "b1"),
        Submission(MkFile(REQ_SALES, <<e>>), "sales", "data.csv", "b1")}

\* the submissions of the pair specification: two sales files and an inventory file of a batch
PairSubmissions ==
    {Submission(MkFile(REQ_SALES, <<SalesRow("A", "2024-01-01", "i1", "2", "5")>>),
                "sales", "data.csv", "b1"),
     Submission(MkFile(REQ_SALES, <<SalesRow("B", "2024-01-02", "i2", "1", "3")>>),
                "sales", "data.csv", "b1"),
     Submission(MkFile(REQ_INV, <<InvRow("m1", "2024-01-01", "i1", "IN", "2", "5")>>),
                "inventory", "data.csv", "b1"),
     Submission(MkFile(REQ_INV, <<InvRow("m2", "2024-01-02", "i1", "OUT", "1", "7")>>),
                "inventory", "data.csv", "b1")}

\* .head(10)
TOP_N == 10

\* the sales rows the metrics are computed from: two rows of one invoice, items that tie on
\* revenue, a fractional quantity
MetricSalesRows ==
    {SalesRow("A", "2024-01-01", "i1", "2", "5"),
     SalesRow("B", "2024-01-02", "i2", "1", "3"),
     SalesRow("A", "2024-01-02", "i2", "1", "5"),
     SalesRow("C", "2024-01-01", "i3", "5", "2"),
     SalesRow("D", "2024-01-02", "i3", "1.5", "2"),
     SalesRow("E", "2024-01-01", "i4", "0", "7")}

\* one sales row per item: i6 and i7 tie on revenue, i3 and i12 tie on revenue
ItemRows ==
    <<SalesRow("A", "2024-01-01", "i1", "1", "1"),
      SalesRow("B", "2024-01-01", "i2", "2", "1"),
      SalesRow("A", "2024-01-01", "i3", "3", "1"),
      SalesRow("B", "2024-01-01", "i4", "5", "1"),
      SalesRow("A", "2024-01-01", "i5", "7", "1"),
      SalesRow("B", "2024-01-01", "i6", "2", "5"),
      SalesRow("A", "2024-01-02", "i7", "5", "2"),
      SalesRow("B", "2024-01-02", "i8", "3", "5"),
      SalesRow("A", "2024-01-02", "i9", "5", "5"),
      SalesRow("B", "2024-01-02", "i10", "7", "5"),
      SalesRow("A", "2024-01-02", "i11", "7", "7"),
      SalesRow("B", "2024-01-02", "i12", "1", "3")>>

\* the inventory rows the metrics are computed from: receipts at two costs, issues, a
\* positive and a negative adjustment, a fractional quantity
MetricInvRows ==
    {InvRow("m1", "2024-01-01", "i1", "IN", "2", "5"),
     InvRow("m2", "2024-01-02", "i1", "OUT", "1", "7"),
     InvRow("m3", "2024-01-01", "i2", "Adj", "1", "3"),
     InvRow("m4", "2024-01-02", "i1", "ADJ", "-1", "3"),
     InvRow("m5", "2024-01-01", "i2", " out ", "1.5", "2"),
     InvRow("m6", "2024-01-02", "i1", "in", "1", "7")}

\* a receipt of 100 at 5 and an issue of 30 at 7
ReceiptAndIssue ==
    <<InvRow("m1", "2024-01-01", "i1", "IN", "100", "5"),
      InvRow("m2", "2024-01-02", "i1", "OUT", "30", "7")>>

\* the files of the metrics specification; the metrics functions take frames of any length
MetricSubmissions ==
    {Submission(MkFile(REQ_SALES, rows), "sales", "data.csv", "b1") :
        rows \in SeqsUpTo(MetricSalesRows, MAX_ROWS + 1)}
    \cup {Submission(MkFile(REQ_SALES, SubSeq(ItemRows, 1, n)), "sales", "data.csv", "b1") :
            n \in (TOP_N - 1)..(TOP_N + 2)}
    \cup {Submission(MkFile(REQ_INV, rows), "inventory", "data.csv", "b1") :
            rows \in SeqsUpTo(MetricInvRows, MAX_ROWS + 1)}
    \cup {Submission(MkFile(REQ_INV, ReceiptAndIssue), "inventory", "data.csv", "b1")}

(***************************************************************************)
(* Metrics engine.  Amounts are exact: a float is the reduced fraction     *)
(* [num, den] with den > 0; den = 0 stands for +-inf.                      *)
(***************************************************************************)
Abs(n) == IF n < 0 THEN 0 - n ELSE n

RECURSIVE Gcd(_, _)
Gcd(a, b) == IF b = 0 THEN a ELSE Gcd(b, a % b)

\* the float a / b: NaN (0/0) is later filled with 0, x/0 is +-inf (den 0)
Quot(a, b) ==
    IF b = 0 THEN [num |-> IF a > 0 THEN 1 ELSE IF a < 0 THEN 0 - 1 ELSE 0, den |-> IF a = 0 THEN 1 ELSE 0]
    ELSE LET g == Gcd(Abs(a), Abs(b))
             sg == IF b < 0 THEN 0 - 1 ELSE 1
         IN [num |-> sg * (a \div g), den |-> sg * (b \div g)]

\* x + y, x * y, x / y, -x and x < y of floats; NaN (0 * inf, 0 / 0) filled with 0
Plus(x, y) == Quot(x.num * y.den + y.num * x.den, x.den * y.den)
Times(x, y) == Quot(x.num * y.num, x.den * y.den)
Over(x, y) == Quot(x.num * y.den, x.den * y.num)
Neg(x) == [num |-> 0 - x.num, den |-> x.den]
Less(x, y) == x.num * y.den < y.num * x.den

\* int(x): the fraction is dropped, towards zero
Trunc(x) == IF x.num >= 0 THEN x.num \div x.den ELSE 0 - ((0 - x.num) \div x.den)

RECURSIVE SumOver(_, _)
\* sum of f[i] over the index set
SumOver(f, idx) ==
    IF idx = {} THEN Whole(0)
    ELSE LET i == CHOOSE j \in idx : TRUE IN Plus(f[i], SumOver(f, idx \ {i}))

\* str() of the calendar date pd.to_datetime(errors="coerce") gives; NaT when it gives none
DateStr(cell) == IF cell \in IsoDates THEN cell ELSE "NaT"

\* position of a group key in ascending order of the keys (strings compare by code point)
KeyRank(k) ==
    CASE k = "2024-01-01" -> 1
      [] k = "2024-01-02" -> 2
      [] k = "NaT" -> 3
      [] k = "i1" -> 1
      [] k = "i10" -> 2
      [] k = "i11" -> 3
      [] k = "i12" -> 4
      [] k = "i2" -> 5
      [] k = "i3" -> 6
      [] k = "i4" -> 7
      [] k = "i5" -> 8
      [] k = "i6" -> 9
      [] k = "i7" -> 10
      [] k = "i8" -> 11
      [] k = "i9" -> 12
      [] OTHER -> 13

RECURSIVE KeysAscending(_)
\* the keys of a groupby, sorted ascending
KeysAscending(keys) ==
    IF keys = {} THEN <<>>
    ELSE LET k == CHOOSE x \in keys : \A y \in keys : KeyRank(x) <= KeyRank(y)
         IN <<k>> \o KeysAscending(keys \ {k})

RanksAboveByRevenue(x, h) == Less(h.revenue, x.revenue)

\* x sorts before h under ["revenue", "units"], ascending=False
RanksAbove(x, h) ==
    Less(h.revenue, x.revenue) \/ (x.revenue = h.revenue /\ Less(h.units, x.units))

RECURSIVE InsertDesc(_, _)
\* x inserted after every entry that does not rank below it: revenue then units, descending
InsertDesc(sorted, x) ==
    IF sorted = <<>> THEN <<x>>
    ELSE LET h == Head(sorted)
         IN IF RanksAbove(x, h)
            THEN <<x>> \o sorted
            ELSE <<h>> \o InsertDesc(Tail(sorted), x)

RECURSIVE SortDesc(_)
\* sort_values(["revenue","units"], ascending=False), ties in their original order
SortDesc(s) == IF s = <<>> THEN <<>> ELSE InsertDesc(SortDesc(SubSeq(s, 1, Len(s) - 1)), s[Len(s)])

EmptyKpis ==
    [revenue |-> Whole(0), units_sold |-> 0, orders |-> 0, aov |-> Whole(0), cogs |-> Whole(0)]

\* compute_sales_metrics
ComputeSalesMetrics(df) ==
    LET idx == 1..Len(df)
        qty == [r \in idx |-> NumVal(df[r]["qty"])]
        rev == [r \in idx |-> Times(NumVal(df[r]["qty"]), NumVal(df[r]["unit_price"]))]
        revenue == SumOver(rev, idx)
        orders == Cardinality({df[r]["invoice_id"] : r \in idx} \ {""})
        date == [r \in idx |-> DateStr(df[r]["invoice_date"])]
        items == {df[r]["item_id"] : r \in idx} \ {""}
        byDate == KeysAscending({date[r] : r \in idx})
        byItem == KeysAscending(items)
        trend == [i \in 1..Len(byDate) |->
                    [date |-> byDate[i],
                     revenue |-> SumOver(rev, {r \in idx : date[r] = byDate[i]}),
                     units |-> SumOver(qty, {r \in idx : date[r] = byDate[i]})]]
        grouped == [i \in 1..Len(byItem) |->
                    [item_id |-> byItem[i],
                     revenue |-> SumOver(rev, {r \in idx : df[r]["item_id"] = byItem[i]}),
                     units |-> SumOver(qty, {r \in idx : df[r]["item_id"] = byItem[i]})]]
        ranked == SortDesc(grouped)
    IN [shape |-> "sales",
        kpis |-> [EmptyKpis EXCEPT !.revenue = revenue,
                                   !.units_sold = Trunc(SumOver(qty, idx)),
                                   !.orders = orders,
                                   !.aov = IF orders # 0 THEN Over(revenue, Whole(orders))
                                           ELSE Whole(0)],
        sales_trend |-> trend,
        top_items |-> SubSeq(ranked, 1, Min(Len(ranked), TOP_N)),
        inventory_levels |-> <<>>,
        cogs_trend |-> <<>>]

SgnAdjSubtracts(t, q) == IF t = "IN" THEN q ELSE Neg(q)

\* sgn(t, q): q for IN, -q for OUT, q otherwise
Sgn(t, q) == IF t = "IN" THEN q ELSE IF t = "OUT" THEN Neg(q) ELSE q

IsOutOrAdj(t) == t \in {"OUT", "ADJ"}

\* df["type"] == "OUT"
IsOut(t) == t = "OUT"

IsInputAnyRow(t, q) == TRUE

\* (df["type"] == "IN") | ((df["type"] == "ADJ") & (df["qty"] > 0))
IsInput(t, q) == t = "IN" \/ (t = "ADJ" /\ Less(Whole(0), q))

\* compute_inventory_metrics
ComputeInventoryMetrics(df) ==
    LET idx == 1..Len(df)
        qty == [r \in idx |-> NumVal(df[r]["qty"])]
        typ == [r \in idx |-> UpperStrip(df[r]["type"])]
        line == [r \in idx |-> Times(NumVal(df[r]["qty"]), NumVal(df[r]["unit_cost"]))]
        signed == [r \in idx |-> Sgn(typ[r], qty[r])]
        date == [r \in idx |-> DateStr(df[r]["move_date"])]
        outs == {r \in idx : IsOut(typ[r])}
        inp == {r \in idx : IsInput(typ[r], qty[r])}
        byItem == KeysAscending({df[r]["item_id"] : r \in idx} \ {""})
        byDate == KeysAscending({date[r] : r \in outs})
        Of(item, rows) == {r \in rows : df[r]["item_id"] = item}
        Wac(item) == IF Of(item, inp) = {} THEN Whole(0)
                     ELSE Over(SumOver(line, Of(item, inp)), SumOver(qty, Of(item, inp)))
        levels == [i \in 1..Len(byItem) |->
                    LET on_hand == SumOver(signed, Of(byItem[i], idx))
                    IN [item_id |-> byItem[i],
                        on_hand |-> on_hand,
                        wac |-> Wac(byItem[i]),
                        value |-> Times(on_hand, Wac(byItem[i]))]]
    IN [shape |-> "inventory",
        kpis |-> [EmptyKpis EXCEPT !.cogs = SumOver(line, outs)],
        sales_trend |-> <<>>,
        top_items |-> <<>>,
        inventory_levels |-> levels,
        cogs_trend |-> [i \in 1..Len(byDate) |->
                          [date |-> byDate[i],
                           cogs |-> SumOver(line, {r \in outs : date[r] = byDate[i]})]]]

\* load_df_for raises: the file is gone, is empty, or lacks a required raw column name
LoadRaises(csv_type, path) ==
    \/ path \notin DOMAIN fs
    \/ ReadCsvRaises(fs[path])
    \/ UseColsRaises(fs[path], REQUIRED(csv_type))

\* load_df_for: pd.read_csv(rec.csv_path, usecols=REQUIRED[rec.csv_type])
LoadDfFor(csv_type, path) == UseCols(fs[path], REQUIRED(csv_type))

\* compute_sales_metrics(df) if csv_type == "sales" else compute_inventory_metrics(df)
MetricsOf(csv_type, df) ==
    IF csv_type = "sales" THEN ComputeSalesMetrics(df) ELSE ComputeInventoryMetrics(df)

ReadyOrUploaded == {"validated", "processed", "uploaded"}

ReadyOrInvalid == {"validated", "processed", "invalid"}

\* rec.status in ("validated", "processed")
READY == {"validated", "processed"}

(***************************************************************************)
(* Requests in flight.  Each slot runs one service call at a time.         *)
(***************************************************************************)
Savers == {"s1", "s2"}
Validators == {"v1", "v2"}

IdleSave == [sub |-> Submission(NoFile, "", "", ""), original |-> "", id |-> 0]
IdleValidate == [id |-> 0, out |-> Outcome("", FALSE, FALSE, NoText, NoText, NoText, NoCount, 0)]

NoData == [shape |-> "none"]

Return(op, id, raised, ok, error, missing, row_count, data) ==
    [op |-> op, id |-> id, raised |-> raised, ok |-> ok, error |-> error, missing |-> missing,
     row_count |-> row_count, data |-> data]

Raise(op, id, error) == Return(op, id, TRUE, FALSE, error, NoText, NoCount, NoData)

NoReturn == Return("", 0, FALSE, FALSE, NoText, NoText, NoCount, NoData)

\* the id the store gives the next inserted row
NextId == Cardinality(DOMAIN records) + 1

\* the calls that have read the file of a record and not yet committed
InFlightOn(id) == {v \in Validators : vpc[v] = "computed" /\ vlocal[v].id = id}

\* requests take the lowest free slot: the second slot is used only while the first is busy
SlotFree(s) == s = "s1" \/ spc["s1"] # "idle"
ValidatorFree(v) == v = "v1" \/ vpc["v1"] = "computed"

(***************************************************************************)
(* save_upload, step by step.                                              *)
(***************************************************************************)
\* lines 45-60: the two checks, then file_storage.save(tmp_path)
SaveBegin(s, sub) ==
    /\ spc[s] = "idle"
    /\ SlotFree(s)
    /\ quota > 0
    /\ sub \in inbox
    /\ IF sub.csv_type \notin TYPES
       THEN /\ ret' = Raise("save_upload", 0, <<"invalid type">>)
            /\ UNCHANGED <<fs, spc, slocal, quota>>
       ELSE IF ~AllowedFile(sub.filename)
       THEN /\ ret' = Raise("save_upload", 0, <<"only .csv allowed">>)
            /\ UNCHANGED <<fs, spc, slocal, quota>>
       ELSE LET original == SecureFilename(sub.filename)
                tmp == TmpPath(original)
            IN /\ fs' = [p \in DOMAIN fs \cup {tmp} |-> IF p = tmp THEN sub.file ELSE fs[p]]
               /\ spc' = [spc EXCEPT ![s] = "tmp_saved"]
               /\ slocal' = [slocal EXCEPT ![s] = [sub |-> sub, original |-> original, id |-> 0]]
               /\ quota' = quota - 1
               /\ UNCHANGED ret
    /\ UNCHANGED <<records, vpc, vlocal, inbox>>

\* lines 63-73: the row is inserted with status uploaded and committed; the store assigns its id
SaveCreate(s) ==
    /\ spc[s] = "tmp_saved"
    /\ LET id == NextId
           l == slocal[s]
       IN /\ records' = [i \in DOMAIN records \cup {id} |->
                            IF i = id
                            THEN NewRecord(id, l.sub.csv_type, l.original, l.sub.batch_id)
                            ELSE records[i]]
          /\ slocal' = [slocal EXCEPT ![s].id = id]
    /\ spc' = [spc EXCEPT ![s] = "created"]
    /\ UNCHANGED <<fs, vpc, vlocal, ret, inbox, quota>>

\* lines 75-76: os.replace(tmp_path, final_path); FileNotFoundError when the temp file is gone
SaveRename(s) ==
    /\ spc[s] = "created"
    /\ LET l == slocal[s]
           tmp == TmpPath(l.original)
           final == FinalPath(l.id, l.sub.csv_type, l.original)
       IN IF tmp \in DOMAIN fs
          THEN /\ fs' = [p \in (DOMAIN fs \ {tmp}) \cup {final} |->
                            IF p = final THEN fs[tmp] ELSE fs[p]]
               /\ spc' = [spc EXCEPT ![s] = "renamed"]
               /\ UNCHANGED <<slocal, ret>>
          ELSE /\ ret' = Raise("save_upload", l.id, <<"FileNotFoundError">>)
               /\ spc' = [spc EXCEPT ![s] = "idle"]
               /\ slocal' = [slocal EXCEPT ![s] = IdleSave]
               /\ UNCHANGED fs
    /\ UNCHANGED <<records, vpc, vlocal, inbox, quota>>

\* lines 79-82: csv_path and content_sha256 are set and committed, the record is returned
SaveCommit(s) ==
    /\ spc[s] = "renamed"
    /\ LET l == slocal[s]
           final == FinalPath(l.id, l.sub.csv_type, l.original)
       IN /\ records' = [records EXCEPT ![l.id].csv_path = final,
                                        ![l.id].content_sha256 = Sha256(fs[final])]
          /\ ret' = Return("save_upload", l.id, FALSE, TRUE, NoText, NoText, NoCount, NoData)
    /\ spc' = [spc EXCEPT ![s] = "idle"]
    /\ slocal' = [slocal EXCEPT ![s] = IdleSave]
    /\ UNCHANGED <<fs, vpc, vlocal, inbox, quota>>

(***************************************************************************)
(* validate_upload: the reads of the stored file, then the commit.  A slot *)
(* keeps what its last call computed until it starts the next call.        *)
(***************************************************************************)
NotFoundTakenAsEmpty == Outcome("validated", FALSE, TRUE, <<>>, NoText, NoText, 0, 0)

NotFound == Outcome("notfound", TRUE, FALSE, NoText, NoText, <<"FileNotFoundError">>, NoCount, 0)

\* lines 95-133: both read_csv calls and the checks; an exception outside the try is raised
ValidateRead(v, id) ==
    /\ vpc[v] \in {"idle", "returned"}
    /\ ValidatorFree(v)
    /\ id \in DOMAIN records
    /\ LET rec == records[id]
           out == IF rec.csv_path \notin DOMAIN fs THEN NotFound
                  ELSE ValidateOutcome(rec.csv_type, fs[rec.csv_path])
       IN /\ vlocal' = [vlocal EXCEPT ![v] = [id |-> id, out |-> out]]
          /\ IF out.raised
             THEN /\ ret' = Raise("validate_upload", id, out.error)
                  /\ vpc' = [vpc EXCEPT ![v] = "returned"]
             ELSE /\ vpc' = [vpc EXCEPT ![v] = "computed"]
                  /\ UNCHANGED ret
    /\ UNCHANGED <<records, fs, spc, slocal, inbox, quota>>

\* lines 98-104, 109-115, 134-147: the branch's assignments, db.session.commit(), the return
ValidateCommit(v) ==
    /\ vpc[v] = "computed"
    /\ LET id == vlocal[v].id
           out == vlocal[v].out
       IN /\ records' = Ranked([records EXCEPT ![id] = ApplyOutcome(records[id], out)])
          /\ ret' = Return("validate_upload", id, FALSE, out.ok,
                           IF out.branch = "missing" THEN NoText ELSE out.error,
                           out.missing, out.row_count, NoData)
    /\ vpc' = [vpc EXCEPT ![v] = "returned"]
    /\ UNCHANGED <<fs, spc, slocal, vlocal, inbox, quota>>

(***************************************************************************)
(* The same two operations run to completion in one step, for the          *)
(* specifications in which requests do not overlap.                        *)
(***************************************************************************)
\* save_upload, lines 45-82
SaveUpload(sub) ==
    /\ quota > 0
    /\ sub \in inbox
    /\ \A s \in Savers : spc[s] = "idle"
    /\ IF sub.csv_type \notin TYPES
       THEN /\ ret' = Raise("save_upload", 0, <<"invalid type">>)
            /\ UNCHANGED <<records, fs, quota>>
       ELSE IF ~AllowedFile(sub.filename)
       THEN /\ ret' = Raise("save_upload", 0, <<"only .csv allowed">>)
            /\ UNCHANGED <<records, fs, quota>>
       ELSE LET original == SecureFilename(sub.filename)
                id == NextId
                final == FinalPath(id, sub.csv_type, original)
                rec == [NewRecord(id, sub.csv_type, original, sub.batch_id)
                          EXCEPT !.csv_path = final, !.content_sha256 = Sha256(sub.file)]
            IN /\ records' = [i \in DOMAIN records \cup {id} |->
                                IF i = id THEN rec ELSE records[i]]
               /\ fs' = [p \in (DOMAIN fs \ {TmpPath(original)}) \cup {final} |->
                            IF p = final THEN sub.file ELSE fs[p]]
               /\ quota' = quota - 1
               /\ ret' = Return("save_upload", id, FALSE, TRUE, NoText, NoText, NoCount, NoData)
    /\ UNCHANGED <<spc, slocal, vpc, vlocal, inbox>>

\* validate_upload, lines 95-147
ValidateUpload(id) ==
    /\ id \in DOMAIN records
    /\ \A v \in Validators : vpc[v] # "computed"
    /\ LET rec == records[id]
           out == IF rec.csv_path \notin DOMAIN fs THEN NotFound
                  ELSE ValidateOutcome(rec.csv_type, fs[rec.csv_path])
       IN IF out.raised
          THEN /\ ret' = Raise("validate_upload", id, out.error)
               /\ UNCHANGED records
          ELSE /\ records' = Ranked([records EXCEPT ![id] = ApplyOutcome(rec, out)])
               /\ ret' = Return("validate_upload", id, FALSE, out.ok,
                                IF out.branch = "missing" THEN NoText ELSE out.error,
                                out.missing, out.row_count, NoData)
    /\ UNCHANGED <<fs, spc, slocal, vpc, vlocal, inbox, quota>>

\* the server process dies: every call in flight is lost, the store and the files stay
Crash ==
    /\ \/ \E s \in Savers : spc[s] # "idle"
       \/ \E v \in Validators : vpc[v] = "computed"
    /\ spc' = [s \in Savers |-> "idle"]
    /\ slocal' = [s \in Savers |-> IdleSave]
    /\ vpc' = [v \in Validators |-> "idle"]
    /\ vlocal' = [v \in Validators |-> IdleValidate]
    /\ ret' = NoReturn
    /\ UNCHANGED <<records, fs, inbox, quota>>

(***************************************************************************)
(* The read operations of csv_routes.py.  Each runs in one step: it reads  *)
(* the store and the files and writes nothing but its response.            *)
(***************************************************************************)
LIST_LIMIT == 50
BatchIds == {"", "b1", "b2"}

Combined(sales, inventory) == [shape |-> "combined", sales |-> sales, inventory |-> inventory]

NotReady(op, id, what) == Return(op, id, FALSE, FALSE, what, NoText, NoCount, NoData)

GeneratedSwallowsFailure(op, id, llm_ok, data) ==
    Return(op, id, FALSE, TRUE, NoText, NoText, NoCount, data)

\* requests.post to the text generator and raise_for_status, inside the route's try
Generated(op, id, llm_ok, data) ==
    IF llm_ok THEN Return(op, id, FALSE, TRUE, NoText, NoText, NoCount, data)
    ELSE Return(op, id, FALSE, FALSE, <<"HTTPError">>, NoText, NoCount, NoData)

\* UNCHANGED of everything a read operation leaves alone
ReadOnly == UNCHANGED <<records, fs, spc, slocal, vpc, vlocal, inbox, quota>>

DashboardMarksProcessed(id) ==
    /\ id \in DOMAIN records
    /\ LET rec == records[id]
       IN IF rec.status \notin READY
          THEN /\ ret' = NotReady("dashboard", id, <<"not ready", rec.status>>)
               /\ UNCHANGED records
          ELSE /\ ret' = Return("dashboard", id, FALSE, TRUE, NoText, NoText, NoCount,
                                MetricsOf(rec.csv_type, LoadDfFor(rec.csv_type, rec.csv_path)))
               /\ records' = [records EXCEPT ![id].status = "processed"]
    /\ UNCHANGED <<fs, spc, slocal, vpc, vlocal, inbox, quota>>

\* CsvDashboard.get
Dashboard(id) ==
    /\ id \in DOMAIN records
    /\ LET rec == records[id]
       IN ret' = IF rec.status \notin READY
                 THEN NotReady("dashboard", id, <<"not ready", rec.status>>)
                 ELSE IF LoadRaises(rec.csv_type, rec.csv_path)
                 THEN Raise("dashboard", id, <<"read_csv">>)
                 ELSE Return("dashboard", id, FALSE, TRUE, NoText, NoText, NoCount,
                             MetricsOf(rec.csv_type, LoadDfFor(rec.csv_type, rec.csv_path)))
    /\ ReadOnly

\* CsvInsight.post: generate_insight_for inside try/except
Insight(id, llm_ok) ==
    /\ id \in DOMAIN records
    /\ LET rec == records[id]
       IN ret' = IF rec.status \notin READY
                 THEN NotReady("insight", id, <<"not ready", rec.status>>)
                 ELSE IF LoadRaises(rec.csv_type, rec.csv_path)
                 THEN NotReady("insight", id, <<"read_csv">>)
                 ELSE Generated("insight", id, llm_ok,
                                MetricsOf(rec.csv_type, LoadDfFor(rec.csv_type, rec.csv_path)))
    /\ ReadOnly

RECURSIVE IdsDescending(_)
\* order_by(CsvUpload.id.desc())
IdsDescending(ids) ==
    IF ids = {} THEN <<>>
    ELSE LET m == CHOOSE x \in ids : \A y \in ids : y <= x
         IN <<m>> \o IdsDescending(ids \ {m})

\* CsvUploads.get: the batch filter when a batch id is given, newest first, limit(50)
ListUploads(bid) ==
    /\ LET ids == IF bid # "" THEN {i \in DOMAIN records : records[i].batch_id = bid}
                  ELSE DOMAIN records
           rows == IdsDescending(ids)
       IN ret' = Return("uploads", 0, FALSE, TRUE, NoText, NoText, NoCount,
                        [shape |-> "list", ids |-> SubSeq(rows, 1, Min(Len(rows), LIST_LIMIT))])
    /\ ReadOnly

\* filter_by(batch_id, status="validated").filter_by(csv_type).order_by(id.desc()).first(); 0 = None
LatestValidated(bid, csv_type) ==
    LET ids == {i \in DOMAIN records : /\ records[i].batch_id = bid
                                       /\ records[i].status = "validated"
                                       /\ records[i].csv_type = csv_type}
    IN IF ids = {} THEN 0 ELSE CHOOSE x \in ids : \A y \in ids : y <= x

\* CsvInsightPair.post; an id of 0 is an absent parameter or a row the store does not hold
PairInsight(sales_id, inv_id, bid, llm_ok) ==
    /\ sales_id \in DOMAIN records \cup {0}
    /\ inv_id \in DOMAIN records \cup {0}
    /\ LET s == IF bid # "" THEN LatestValidated(bid, "sales") ELSE sales_id
           i == IF bid # "" THEN LatestValidated(bid, "inventory") ELSE inv_id
       IN ret' = IF s = 0 \/ records[s].status \notin READY
                 THEN NotReady("pair", s, <<"sales upload not ready or missing">>)
                 ELSE IF i = 0 \/ records[i].status \notin READY
                 THEN NotReady("pair", i, <<"inventory upload not ready or missing">>)
                 ELSE IF \/ LoadRaises(records[s].csv_type, records[s].csv_path)
                         \/ LoadRaises(records[i].csv_type, records[i].csv_path)
                 THEN Raise("pair", s, <<"read_csv">>)
                 ELSE IF records[s].csv_type # "sales" \/ records[i].csv_type # "inventory"
                 THEN Raise("pair", s, <<"KeyError">>)
                 ELSE Generated("pair", s, llm_ok,
                        Combined(ComputeSalesMetrics(LoadDfFor("sales", records[s].csv_path)),
                                 ComputeInventoryMetrics(LoadDfFor("inventory", records[i].csv_path))))
    /\ ReadOnly

\* the frame of the newest of these uploads alone
ConcatLast(ids, csv_type) ==
    IF ids = {} THEN <<>>
    ELSE LoadDfFor(csv_type, records[CHOOSE x \in ids : \A y \in ids : y <= x].csv_path)

RECURSIVE Concat(_, _)
\* pd.concat of the data frames of these uploads, in ascending id order
Concat(ids, csv_type) ==
    IF ids = {} THEN <<>>
    ELSE LET m == CHOOSE x \in ids : \A y \in ids : y <= x
         IN Concat(ids \ {m}, csv_type) \o LoadDfFor(csv_type, records[m].csv_path)

\* CsvInsightBatch.post
BatchInsight(bid, llm_ok) ==
    /\ LET rows == {i \in DOMAIN records : records[i].batch_id = bid /\ records[i].status \in READY}
           sales == {i \in rows : records[i].csv_type = "sales"}
           inv == rows \ sales
       IN ret' = IF bid = ""
                 THEN NotReady("batch", 0, <<"batch_id is required">>)
                 ELSE IF rows = {}
                 THEN NotReady("batch", 0, <<"no validated uploads in this batch">>)
                 ELSE IF \E i \in rows : LoadRaises(records[i].csv_type, records[i].csv_path)
                 THEN Raise("batch", 0, <<"read_csv">>)
                 ELSE Generated("batch", 0, llm_ok,
                        Combined(IF sales = {} THEN NoData
                                 ELSE ComputeSalesMetrics(Concat(sales, "sales")),
                                 IF inv = {} THEN NoData
                                 ELSE ComputeInventoryMetrics(Concat(inv, "inventory"))))
    /\ ReadOnly

(***************************************************************************)
(* Specifications.                                                         *)
(***************************************************************************)
InitCommon ==
    /\ records = <<>>
    /\ fs = <<>>
    /\ spc = [s \in Savers |-> "idle"]
    /\ slocal = [s \in Savers |-> IdleSave]
    /\ vpc = [v \in Validators |-> "idle"]
    /\ vlocal = [v \in Validators |-> IdleValidate]
    /\ ret = NoReturn

\* the service after start-up: an empty store, clients holding a few files
Init ==
    /\ InitCommon
    /\ inbox = FewSubmissions
    /\ quota = MaxUploads

\* the write path: overlapping uploads, validation calls between their steps, crashes
Next ==
    \/ \E s \in Savers : \E sub \in inbox : SaveBegin(s, sub)
    \/ \E s \in Savers : SaveCreate(s)
    \/ \E s \in Savers : SaveRename(s)
    \/ \E s \in Savers : SaveCommit(s)
    \/ \E id \in DOMAIN records : ValidateRead("v1", id)
    \/ ValidateCommit("v1")
    \/ Crash

Spec == Init /\ [][Next]_vars

\* overlapping validation calls on stored files
NextRace ==
    \/ \E sub \in inbox : SaveUpload(sub)
    \/ \E v \in Validators : \E id \in DOMAIN records : ValidateRead(v, id)
    \/ \E v \in Validators : ValidateCommit(v)

SpecRace == Init /\ [][NextRace]_vars

InitCore ==
    /\ InitCommon
    /\ inbox = CoreSubmissions
    /\ quota = MaxUploads

\* every operation of the core, one request at a time
NextCore ==
    \/ \E sub \in inbox : SaveUpload(sub)
    \/ \E id \in DOMAIN records : ValidateUpload(id)
    \/ \E id \in DOMAIN records : Dashboard(id)
    \/ \E id \in DOMAIN records : \E llm_ok \in BOOLEAN : Insight(id, llm_ok)
    \/ \E bid \in BatchIds : ListUploads(bid)
    \/ \E s \in DOMAIN records \cup {0} : \E i \in DOMAIN records \cup {0} :
          \E llm_ok \in BOOLEAN : PairInsight(s, i, "", llm_ok)
    \/ \E bid \in BatchIds \ {""} : \E llm_ok \in BOOLEAN : PairInsight(0, 0, bid, llm_ok)
    \/ \E bid \in BatchIds : \E llm_ok \in BOOLEAN : BatchInsight(bid, llm_ok)

SpecCore == InitCore /\ [][NextCore]_vars

\* one file of the catalogue, uploaded once, then validated and read
InitFiles ==
    /\ InitCommon
    /\ inbox \in {{sub} : sub \in AllSubmissions}
    /\ quota = 1

NextFiles ==
    \/ \E sub \in inbox : SaveUpload(sub)
    \/ \E id \in DOMAIN records : ValidateUpload(id)
    \/ \E id \in DOMAIN records : Dashboard(id)

SpecFiles == InitFiles /\ [][NextFiles]_vars

\* uploads under every name and type, one request at a time
InitIntake ==
    /\ InitCommon
    /\ inbox = IntakeSubmissions
    /\ quota = MaxUploads

NextIntake ==
    \/ \E sub \in inbox : SaveUpload(sub)
    \/ \E id \in DOMAIN records : ValidateUpload(id)

SpecIntake == InitIntake /\ [][NextIntake]_vars

\* the uploads of a batch, each validated once and in any order, then read by batch id
InitBatch ==
    /\ InitCommon
    /\ inbox = BatchSubmissions
    /\ quota = MaxUploads

NextBatch ==
    \/ \E sub \in inbox : SaveUpload(sub)
    \/ \E id \in DOMAIN records : records[id].status = "uploaded" /\ ValidateUpload(id)
    \/ \E bid \in BatchIds : \E llm_ok \in BOOLEAN : BatchInsight(bid, llm_ok)

SpecBatch == InitBatch /\ [][NextBatch]_vars

\* several uploads of each type in one batch, validated in any order, then paired by batch id
InitPair ==
    /\ InitCommon
    /\ inbox = PairSubmissions
    /\ quota = MaxUploads + 1

NextPair ==
    \/ \E sub \in inbox : SaveUpload(sub)
    \/ \E id \in DOMAIN records : records[id].status = "uploaded" /\ ValidateUpload(id)
    \/ \E llm_ok \in BOOLEAN : PairInsight(0, 0, "b1", llm_ok)

SpecPair == InitPair /\ [][NextPair]_vars

\* one client uploading the same file into one batch, beyond the length of a listing
InitList ==
    /\ InitCommon
    /\ inbox = {Submission(MkFile(REQ_SALES, GoodRows("sales", 1)), "sales", "data.csv", "b1")}
    /\ quota = LIST_LIMIT + 1

NextList ==
    \/ \E sub \in inbox : SaveUpload(sub)
    \/ \E bid \in BatchIds : ListUploads(bid)

SpecList == InitList /\ [][NextList]_vars

\* the metrics functions applied to the frame load_df_for reads from a file
ComputeMetrics(sub) ==
    /\ sub \in inbox
    /\ ret' = Return("metrics", 0, FALSE, TRUE, NoText, NoText, NoCount,
                     MetricsOf(sub.csv_type, UseCols(sub.file, REQUIRED(sub.csv_type))))
    /\ UNCHANGED <<records, fs, spc, slocal, vpc, vlocal, inbox, quota>>

\* the metrics of one file, for every file of the metrics catalogue
InitMetrics ==
    /\ InitCommon
    /\ inbox \in {{sub} : sub \in MetricSubmissions}
    /\ quota = 1

NextMetrics == \E sub \in inbox : ComputeMetrics(sub)

SpecMetrics == InitMetrics /\ [][NextMetrics]_vars

(***************************************************************************)
(* Properties.                                                             *)
(***************************************************************************)
\* the file a record owns, NoFile while its path names none
StoredFile(id) ==
    IF records[id].csv_path \in DOMAIN fs THEN fs[records[id].csv_path] ELSE NoFile

\* a validate_upload call is reading the file of this record
Validating(id) == \E v \in Validators : vpc[v] = "computed" /\ vlocal[v].id = id

\* C1: in every state reached by save_upload and validate_upload calls, repeated ones
\* included, a record has row_count set exactly when its status is validated or processed.
C1_RowCountIffReady ==
    \A id \in DOMAIN records :
        (records[id].row_count # NoCount) <=> (records[id].status \in {"validated", "processed"})

\* a validated record with its row count, validated again, beside an invalid one without
C1_Witness ==
    \E id \in DOMAIN records : \E other \in DOMAIN records :
        /\ records[id].status = "validated" /\ records[id].row_count = 1
        /\ Validating(id)
        /\ records[other].status = "invalid" /\ records[other].row_count = NoCount

\* C2: in every state reached by save_upload and validate_upload calls, repeated ones
\* included, a record has error_msg set exactly when its status is invalid or failed.
C2_ErrorIffInvalid ==
    \A id \in DOMAIN records :
        (records[id].error_msg # NoText) <=> (records[id].status \in {"invalid", "failed"})

\* an invalid record with its error message, validated again, beside a validated one without
C2_Witness ==
    \E id \in DOMAIN records : \E other \in DOMAIN records :
        /\ records[id].status = "invalid" /\ records[id].error_msg # NoText
        /\ Validating(id)
        /\ records[other].status = "validated" /\ records[other].error_msg = NoText

\* C3: once a record's status is invalid, no operation of the core (validate, dashboard
\* metrics, insight, list, pair insight, batch insight, upload of other files) changes it.
C3_InvalidAbsorbing ==
    [][\A id \in DOMAIN records :
          records[id].status = "invalid" => records'[id].status = "invalid"]_vars

\* an invalid record on which a read operation has just answered
C3_Witness ==
    \E id \in DOMAIN records :
        /\ records[id].status = "invalid"
        /\ ret.op \in {"dashboard", "insight"} /\ ret.id = id /\ ~ret.ok
        /\ Cardinality(DOMAIN records) > 1

\* C4: the core never sets a status to processed or failed and never changes the status of a
\* validated record: a status changes only from uploaded, to validated or to invalid.
C4_OnlyIntakeTransitions ==
    [][/\ \A id \in DOMAIN records :
            records'[id].status # records[id].status
                => /\ records[id].status = "uploaded"
                   /\ records'[id].status \in {"validated", "invalid"}
       /\ \A id \in DOMAIN records' : records'[id].status \notin {"processed", "failed"}]_vars

\* both transitions have been taken and a validated record is being validated again
C4_Witness ==
    \E id \in DOMAIN records : \E other \in DOMAIN records :
        /\ records[id].status = "validated" /\ Validating(id)
        /\ records[other].status = "invalid"

\* C5: whenever the process dies during save_upload, no stored record names a final,
\* id-qualified file that does not exist; stated of every state, so of every crash point.
C5_NoDanglingFinalPath ==
    \A id \in DOMAIN records :
        records[id].csv_path # EmptyPath => records[id].csv_path \in DOMAIN fs

\* after a crash between the first commit and the rename: a record without a path and the
\* orphaned temp file
C5_Witness ==
    /\ ret = NoReturn
    /\ \A s \in Savers : spc[s] = "idle"
    /\ \E id \in DOMAIN records :
        /\ records[id].csv_path = EmptyPath
        /\ TmpPath(records[id].original_filename) \in DOMAIN fs

\* the record as save_upload leaves it, before any validation
Saved(id) ==
    [NewRecord(id, records[id].csv_type, records[id].original_filename, records[id].batch_id)
        EXCEPT !.csv_path = records[id].csv_path,
               !.content_sha256 = records[id].content_sha256]

\* the record one validate_upload call alone makes of it
ValidatedOnce(id) ==
    LET out == ValidateOutcome(records[id].csv_type, StoredFile(id))
    IN IF out.raised THEN Saved(id) ELSE ApplyOutcome(Saved(id), out)

Terminal(rec) == <<rec.status, rec.row_count, rec.error_msg>>

\* C6: validate_upload calls on the same record that overlap (each reads the file, then
\* writes) leave, once all have returned, the status, row_count and error_msg that a single
\* call produces, whatever the interleaving.
C6_RaceSameTerminalState ==
    \A id \in DOMAIN records :
        (/\ \E v \in Validators : vpc[v] = "returned" /\ vlocal[v].id = id
         /\ ~Validating(id))
            => Terminal(records[id]) = Terminal(ValidatedOnce(id))

\* two calls that overlapped on one record have both returned
C6_Witness ==
    \E id \in DOMAIN records :
        /\ \A v \in Validators : vpc[v] = "returned" /\ vlocal[v].id = id /\ ~vlocal[v].out.raised
        /\ records[id].status = "validated"

(***************************************************************************)
(* Properties of validation and metrics as functions of the file.          *)
(***************************************************************************)
\* the header holds every required column under its exact name
HasAllRequired(csv_type, file) ==
    \A c \in Range(REQUIRED(csv_type)) : c \in Range(file.header)

\* the cell of a line of the file under a column name
CellAt(file, r, name) == file.rows[r][ColIndex(file.header, name)]

\* every line has a strict ISO date, numbers in its numeric columns and, for inventory, a
\* movement type that is IN, OUT or ADJ after trimming and upper-casing
AllRowsConform(csv_type, file) ==
    \A r \in 1..Len(file.rows) :
        IF csv_type = "sales"
        THEN /\ CellAt(file, r, "invoice_date") \in IsoDates
             /\ CellAt(file, r, "qty") \in NumberCells
             /\ CellAt(file, r, "unit_price") \in NumberCells
        ELSE /\ CellAt(file, r, "move_date") \in IsoDates
             /\ CellAt(file, r, "qty") \in NumberCells
             /\ CellAt(file, r, "unit_cost") \in NumberCells
             /\ CellAt(file, r, "type") \in {"IN", "OUT", "ADJ", "in", " out ", "Adj"}

\* validate_upload has just returned or raised for this record
JustValidated(id) == ret.op = "validate_upload" /\ ret.id = id

\* C7: for any stored file, validate_upload on an uploaded record returns (ok, info) without
\* raising and leaves the record validated (ok) or invalid with error_msg set (not ok),
\* never uploaded.
C7_ValidateRecordsEveryFailure ==
    \A id \in DOMAIN records :
        JustValidated(id) =>
            /\ ~ret.raised
            /\ records[id].status # "uploaded"
            /\ ret.ok => records[id].status = "validated"
            /\ ~ret.ok => records[id].status = "invalid" /\ records[id].error_msg # NoText

\* C8: for a file with all required columns and only conforming rows, validate_upload sets
\* validated with row_count = n when the file has n <= MAX_ROWS data rows, and invalid with
\* the row-limit error when it has MAX_ROWS + 1 or more.
C8_RowLimitBoundary ==
    \A id \in DOMAIN records :
        LET file == StoredFile(id)
            n == Len(file.rows)
        IN (/\ JustValidated(id)
            /\ HasAllRequired(records[id].csv_type, file)
            /\ AllRowsConform(records[id].csv_type, file))
            => IF n <= MAX_ROWS
               THEN /\ ret.ok /\ ret.row_count = n
                    /\ records[id].status = "validated" /\ records[id].row_count = n
               ELSE /\ ~ret.raised /\ ~ret.ok /\ ret.error = <<"Row limit exceeded">>
                    /\ records[id].status = "invalid"
                    /\ records[id].error_msg = <<"Row limit exceeded">>

\* a conforming file of exactly MAX_ROWS rows has been validated
C8_Witness ==
    \E id \in DOMAIN records :
        /\ JustValidated(id)
        /\ HasAllRequired(records[id].csv_type, StoredFile(id))
        /\ AllRowsConform(records[id].csv_type, StoredFile(id))
        /\ Len(StoredFile(id).rows) = MAX_ROWS
        /\ records[id].status = "validated" /\ records[id].row_count = MAX_ROWS

\* the required columns absent from a set of column names, in registry order
Absent(csv_type, names) == SelectSeq(REQUIRED(csv_type), LAMBDA c : c \notin names)

\* the header with each name trimmed of surrounding whitespace
Trimmed(header) == [i \in 1..Len(header) |-> Strip(header[i])]

ExtraColumns == {<<>>, <<"memo">>, <<" qty", "memo">>}

\* the file with extra columns added in front and behind, each line holding "z" under them
AddCols(file, pre, post) ==
    [header |-> pre \o file.header \o post,
     rows |-> [r \in 1..Len(file.rows) |->
                [i \in 1..Len(pre) |-> "z"] \o file.rows[r] \o [i \in 1..Len(post) |-> "z"]]]

\* what validate_upload returns and makes of the record when the stored file is this one
ValidatedAs(id, file) ==
    LET out == ValidateOutcome(records[id].csv_type, file)
    IN <<out.raised, out.ok, out.row_count,
         Terminal(IF out.raised THEN Saved(id) ELSE ApplyOutcome(Saved(id), out))>>

\* C10: for a file holding all required columns (by the validator's test, on trimmed names),
\* adding any columns outside the schema leaves the validation outcome (ok, status, row_count,
\* and whether the call raises) and the metrics computed from it unchanged.
C10_ExtraColumnsIgnored ==
    \A id \in DOMAIN records :
        LET file == StoredFile(id)
            t == records[id].csv_type
        IN Absent(t, Range(Trimmed(file.header))) = <<>> =>
            \A pre \in ExtraColumns : \A post \in ExtraColumns :
                LET wider == AddCols(file, pre, post)
                IN /\ JustValidated(id) =>
                        /\ <<ret.raised, ret.ok, ret.row_count, Terminal(records[id])>>
                                = ValidatedAs(id, wider)
                   /\ (ret.op = "dashboard" /\ ret.id = id /\ ret.ok) =>
                        ret.data = MetricsOf(t, UseCols(wider, REQUIRED(t)))

\* metrics have been computed from a validated file that carries a column outside the schema
C10_Witness ==
    \E id \in DOMAIN records :
        /\ ret.op = "dashboard" /\ ret.id = id /\ ret.ok
        /\ "note" \in Range(StoredFile(id).header)
        /\ ret.data.kpis.revenue = Whole(10)

\* C11: a record is validated only if every row of its file has a strict YYYY-MM-DD date,
\* numeric values in every numeric column and (inventory) a movement type that is IN, OUT or
\* ADJ after trimming and upper-casing; within the row limit, one violating row makes the
\* upload invalid.
C11_AllOrNothing ==
    \A id \in DOMAIN records :
        LET file == StoredFile(id)
            t == records[id].csv_type
        IN /\ records[id].status = "validated" => AllRowsConform(t, file)
           /\ (/\ JustValidated(id)
               /\ HasAllRequired(t, file)
               /\ Len(file.rows) <= MAX_ROWS
               /\ ~AllRowsConform(t, file))
                => ~ret.ok /\ records[id].status = "invalid"

\* the cell holds a number that is not negative
NonNegative(cell) == cell \in NumberCells /\ ~Less(NumVal(cell), Whole(0))

\* C12: every row of a validated sales upload has a non-negative integer quantity and a
\* non-negative unit price, and every row of a validated inventory upload has a non-negative
\* unit cost.
C12_NonNegativeAmounts ==
    \A id \in DOMAIN records :
        LET file == StoredFile(id)
        IN records[id].status = "validated" =>
            \A r \in 1..Len(file.rows) :
                IF records[id].csv_type = "sales"
                THEN /\ NonNegative(CellAt(file, r, "qty"))
                     /\ NumVal(CellAt(file, r, "qty")).den = 1
                     /\ NonNegative(CellAt(file, r, "unit_price"))
                ELSE NonNegative(CellAt(file, r, "unit_cost"))

(***************************************************************************)
(* Properties of save_upload.                                              *)
(***************************************************************************)
\* the filename ends in .csv, in any letter case
CsvNames == {"data.csv", "DATA.CSV", "my data.csv", "my_data.csv"}

\* C13: save_upload rejects a record type other than sales or inventory and a filename whose
\* extension is not .csv (case-insensitive), and in both cases creates no record and writes
\* no file.
C13_RejectsBeforeSideEffects ==
    [][\A sub \in inbox :
          (SaveUpload(sub) /\ (sub.csv_type \notin {"sales", "inventory"}
                               \/ sub.filename \notin CsvNames))
            => /\ ret'.op = "save_upload" /\ ret'.raised /\ ~ret'.ok
               /\ ret'.error = IF sub.csv_type \notin {"sales", "inventory"}
                               THEN <<"invalid type">> ELSE <<"only .csv allowed">>
               /\ records' = records
               /\ fs' = fs]_vars

\* a filename without the .csv extension has been rejected after an upload was stored
C13_Witness ==
    /\ ret.op = "save_upload" /\ ret.raised /\ ret.error = <<"only .csv allowed">>
    /\ Cardinality(DOMAIN records) = 1
    /\ Cardinality(DOMAIN fs) = 1

\* C14: each successful save_upload creates exactly one record, with status uploaded, and
\* exactly one file, at a final path derived from that record's id and type; after any
\* sequence of successful calls no two records share a final path.
C14_OneRecordOneFile ==
    [][(ret'.op = "save_upload" /\ ret'.ok /\ ret' # ret) =>
          LET id == ret'.id
              path == records'[id].csv_path
          IN /\ DOMAIN records' \ DOMAIN records = {id}
             /\ \A i \in DOMAIN records : records'[i] = records[i]
             /\ records'[id].status = "uploaded"
             /\ path.kind = "final" /\ path.id = id /\ path.name = records'[id].csv_type
             /\ DOMAIN fs' \ DOMAIN fs = {path}
             /\ \A p \in DOMAIN fs : p \in DOMAIN fs' /\ fs'[p] = fs[p]
             /\ \A a \in DOMAIN records' : \A b \in DOMAIN records' :
                    a # b => records'[a].csv_path # records'[b].csv_path]_vars

\* two uploads of the same type under the same filename are stored at different paths
C14_Witness ==
    \E a \in DOMAIN records : \E b \in DOMAIN records :
        /\ a # b
        /\ records[a].csv_type = records[b].csv_type
        /\ records[a].original_filename = records[b].original_filename
        /\ records[a].csv_path # records[b].csv_path
        /\ {records[a].csv_path, records[b].csv_path} \subseteq DOMAIN fs

(***************************************************************************)
(* Properties of the read operations.                                      *)
(***************************************************************************)
\* the record is absent (id 0) or its status is neither validated nor processed
Unready(id) == id = 0 \/ records[id].status \notin {"validated", "processed"}

\* the response is an error that carries no metrics
RefusedAs(errors) == ~ret'.ok /\ ~ret'.raised /\ ret'.error \in errors /\ ret'.data = NoData

\* C15: the dashboard and the single-upload insight answer with a not-ready error and no
\* metrics whenever the record's status is not validated or processed, and the pair insight
\* answers with a not-ready error when either referenced upload is uploaded, invalid or
\* missing.
C15_MetricsOnlyWhenReady ==
    [][/\ ret'.op \in {"dashboard", "insight"} =>
            \A id \in DOMAIN records :
                (Unready(id) /\ (Dashboard(id) \/ \E llm_ok \in BOOLEAN : Insight(id, llm_ok)))
                    => RefusedAs({<<"not ready", records[id].status>>})
       /\ ret'.op = "pair" =>
            \A s \in DOMAIN records \cup {0} : \A i \in DOMAIN records \cup {0} :
                ((Unready(s) \/ Unready(i)) /\ \E llm_ok \in BOOLEAN : PairInsight(s, i, "", llm_ok))
                    => RefusedAs({<<"sales upload not ready or missing">>,
                                  <<"inventory upload not ready or missing">>})]_vars

\* a pair of a validated sales upload and an invalid inventory upload has been refused
C15_Witness ==
    /\ ret.op = "pair" /\ ~ret.ok
    /\ ret.error = <<"inventory upload not ready or missing">>
    /\ ret.id # 0 /\ records[ret.id].status = "invalid"
    /\ \E s \in DOMAIN records : records[s].csv_type = "sales" /\ records[s].status = "validated"

\* the upload of this type in the batch validated last among those validated or processed;
\* 0 when the batch holds none
MostRecentlyValidated(bid, csv_type) ==
    LET ids == {i \in DOMAIN records : /\ records[i].batch_id = bid
                                       /\ records[i].csv_type = csv_type
                                       /\ records[i].status \in {"validated", "processed"}}
    IN IF ids = {} THEN 0
       ELSE CHOOSE x \in ids : \A y \in ids : records[y].validated_at <= records[x].validated_at

\* C16: given a batch id, the pair insight selects for each type the most recently validated
\* upload of that type in the batch among those validated or processed, and it selects a pair
\* (and computes the metrics of exactly these two) whenever the batch holds at least one such
\* sales upload and one such inventory upload.
C16_PairSelectsMostRecentlyValidated ==
    [][\A llm_ok \in BOOLEAN :
          LET s == MostRecentlyValidated("b1", "sales")
              i == MostRecentlyValidated("b1", "inventory")
          IN (PairInsight(0, 0, "b1", llm_ok) /\ s # 0 /\ i # 0)
              => ret' = Generated("pair", s, llm_ok,
                            Combined(ComputeSalesMetrics(UseCols(StoredFile(s), REQ_SALES)),
                                     ComputeInventoryMetrics(UseCols(StoredFile(i), REQ_INV))))]_vars

\* the uploads of a type in a batch whose status is validated or processed
ReadyIn(bid, csv_type) ==
    {i \in DOMAIN records : /\ records[i].batch_id = bid
                            /\ records[i].csv_type = csv_type
                            /\ records[i].status \in {"validated", "processed"}}

RECURSIVE RowsOfAll(_, _)
\* the required columns of the stored files of these uploads, one file after the other
RowsOfAll(ids, req) ==
    IF ids = {} THEN <<>>
    ELSE LET first == CHOOSE x \in ids : \A y \in ids : x <= y
         IN UseCols(StoredFile(first), req) \o RowsOfAll(ids \ {first}, req)

\* C17: the batch insight computes its metrics from every upload of the batch whose status is
\* validated or processed and from no other upload, one result per type that has such an
\* upload, and answers with a no-data error when the batch has none.
C17_BatchUsesAllReady ==
    [][\A bid \in BatchIds \ {""} : \A llm_ok \in BOOLEAN :
          BatchInsight(bid, llm_ok) =>
            LET sales == ReadyIn(bid, "sales")
                inv == ReadyIn(bid, "inventory")
            IN IF sales \cup inv = {}
               THEN RefusedAs({<<"no validated uploads in this batch">>})
               ELSE llm_ok =>
                     /\ ret'.ok
                     /\ ret'.data.sales = IF sales = {} THEN NoData
                                          ELSE ComputeSalesMetrics(RowsOfAll(sales, REQ_SALES))
                     /\ ret'.data.inventory = IF inv = {} THEN NoData
                                              ELSE ComputeInventoryMetrics(RowsOfAll(inv, REQ_INV))]_vars

\* batch metrics have been computed from the one validated sales upload of a batch that also
\* holds an upload that is not validated
C17_Witness ==
    /\ ret.op = "batch" /\ ret.ok
    /\ ret.data.sales # NoData /\ ret.data.sales.kpis.revenue = Whole(10)
    /\ ret.data.inventory = NoData
    /\ \E a \in DOMAIN records : \E b \in DOMAIN records :
        /\ records[a].batch_id = "b1" /\ records[a].status = "validated"
        /\ records[b].batch_id = "b1" /\ records[b].status \in {"uploaded", "invalid"}

\* the invoice ids of the stored file of an upload
InvoicesOf(id) == {StoredFile(id).rows[r][1] : r \in 1..Len(StoredFile(id).rows)}

\* C18: for two validated sales files of one batch with disjoint invoice ids, the batch sales
\* metrics are those of a single file holding the rows of both: orders, revenue and
\* units_sold are the sums of the two files' orders, revenue and units_sold.
C18_BatchSumsDisjointFiles ==
    [][\A a \in DOMAIN records : \A b \in DOMAIN records :
          (/\ a < b
           /\ ReadyIn("b1", "sales") = {a, b}
           /\ InvoicesOf(a) \cap InvoicesOf(b) = {}
           /\ BatchInsight("b1", TRUE))
            => LET ka == ComputeSalesMetrics(UseCols(StoredFile(a), REQ_SALES)).kpis
                   kb == ComputeSalesMetrics(UseCols(StoredFile(b), REQ_SALES)).kpis
                   one == MkFile(REQ_SALES, UseCols(StoredFile(a), REQ_SALES)
                                            \o UseCols(StoredFile(b), REQ_SALES))
               IN /\ ret'.ok
                  /\ ret'.data.sales = ComputeSalesMetrics(UseCols(one, REQ_SALES))
                  /\ ret'.data.sales.kpis.orders = ka.orders + kb.orders
                  /\ ret'.data.sales.kpis.revenue = Plus(ka.revenue, kb.revenue)
                  /\ ret'.data.sales.kpis.units_sold = ka.units_sold + kb.units_sold]_vars

\* the batch metrics of two validated sales files with invoices A and B have been computed
C18_Witness ==
    /\ ret.op = "batch" /\ ret.ok
    /\ \E a \in DOMAIN records : \E b \in DOMAIN records :
        /\ a # b
        /\ ReadyIn("b1", "sales") = {a, b}
        /\ InvoicesOf(a) \cap InvoicesOf(b) = {}
    /\ ret.data.sales.kpis.orders = 2
    /\ ret.data.sales.kpis.revenue = Whole(13)
    /\ ret.data.sales.kpis.units_sold = 3

\* C19: the listing for a batch id returns all uploads sharing that batch id and no others,
\* in descending id order; the cap of 50 applies only to the listing without a batch id.
C19_ListByBatchComplete ==
    [][\A bid \in BatchIds \ {""} :
          ListUploads(bid) =>
            LET ids == ret'.data.ids
            IN /\ Range(ids) = {i \in DOMAIN records : records[i].batch_id = bid}
               /\ \A k \in 1..(Len(ids) - 1) : ids[k] > ids[k + 1]]_vars

\* C20: validate_upload reads at most MAX_ROWS + 1 data rows of the stored file on every
\* path (the most any of its read_csv calls parses), however many rows the file holds.
C20_ReadsAtMostLimitPlusOne ==
    \A id \in DOMAIN records :
        JustValidated(id) =>
            ValidateOutcome(records[id].csv_type, StoredFile(id)).rows_read <= MAX_ROWS + 1

\* the status, row_count and error_msg of every record are what they were
RecordsKept ==
    /\ DOMAIN records' = DOMAIN records
    /\ \A id \in DOMAIN records : Terminal(records'[id]) = Terminal(records[id])

\* C21: when the call to the text generator fails, the single, pair and batch insight each
\* answer ok = false with an error, never a success, and leave the status, row_count and
\* error_msg of every record unchanged.
C21_GeneratorFailureSurfaced ==
    [][/\ ret'.op = "insight" =>
            \A id \in DOMAIN records :
                Insight(id, FALSE) => ~ret'.ok /\ ret'.error # NoText /\ RecordsKept
       /\ ret'.op = "pair" =>
            /\ \A s \in DOMAIN records \cup {0} : \A i \in DOMAIN records \cup {0} :
                 PairInsight(s, i, "", FALSE) => ~ret'.ok /\ ret'.error # NoText /\ RecordsKept
            /\ \A bid \in BatchIds \ {""} :
                 PairInsight(0, 0, bid, FALSE) => ~ret'.ok /\ ret'.error # NoText /\ RecordsKept
       /\ ret'.op = "batch" =>
            \A bid \in BatchIds :
                BatchInsight(bid, FALSE) => ~ret'.ok /\ ret'.error # NoText /\ RecordsKept]_vars

\* the generator has failed on a validated upload whose metrics had been computed
C21_Witness ==
    /\ ret.op \in {"insight", "pair", "batch"}
    /\ ~ret.ok /\ ret.error = <<"HTTPError">>
    /\ \E id \in DOMAIN records : records[id].status = "validated" /\ records[id].row_count = 1

\* the bytes an upload was stored with, as its fingerprint records them
UploadedBytes(id) == records[id].content_sha256[1]

\* C22: computing metrics is idempotent and read-only: a metrics computation on a validated
\* upload returns what the preceding one on the same upload returned, which is the metrics of
\* the bytes uploaded, and changes neither the stored files nor any field of any record.
C22_MetricsReadOnly ==
    [][ret'.op = "dashboard" =>
          \A id \in DOMAIN records :
              Dashboard(id) =>
                /\ fs' = fs
                /\ records' = records
                /\ ret'.ok => ret'.data = MetricsOf(records[id].csv_type,
                                              UseCols(UploadedBytes(id), REQUIRED(records[id].csv_type)))
                /\ (ret'.ok /\ ret.ok /\ ret.op \in {"dashboard", "insight"} /\ ret.id = id)
                      => ret'.data = ret.data]_vars

\* the metrics of a validated upload have been computed by the dashboard
C22_Witness ==
    /\ ret.op = "dashboard" /\ ret.ok
    /\ records[ret.id].status = "validated"
    /\ ret.data = MetricsOf(records[ret.id].csv_type,
                            UseCols(StoredFile(ret.id), REQUIRED(records[ret.id].csv_type)))

\* a save_upload call in this slot has just returned its record
SaveReturned(s) ==
    /\ spc[s] = "renamed" /\ spc'[s] = "idle"
    /\ ret'.op = "save_upload" /\ ret'.ok /\ ret'.id = slocal[s].id

\* a save_upload call in this slot has just failed for want of its temporary file
SaveLostFile(s) ==
    /\ spc[s] = "created" /\ spc'[s] = "idle"
    /\ ret'.op = "save_upload" /\ ret'.error = <<"FileNotFoundError">>

\* C28: when two save_upload calls of one owner with the same original filename interleave,
\* each ends with its own record whose csv_path names an existing file holding exactly the
\* bytes that call submitted and whose fingerprint is the hash of those bytes; neither call
\* loses its file or fails because of the other.
C28_InterleavedUploadsKeepOwnFile ==
    [][\A s \in Savers :
          /\ ~SaveLostFile(s)
          /\ SaveReturned(s) =>
                LET rec == records'[slocal[s].id]
                IN /\ rec.csv_path \in DOMAIN fs'
                   /\ fs'[rec.csv_path] = slocal[s].sub.file
                   /\ rec.content_sha256 = Sha256(slocal[s].sub.file)]_vars

\* C29: in every reachable state, the intermediate states of save_upload and the states a
\* failed save_upload leaves included, a record whose status is validated or processed has a
\* non-empty csv_path that names an existing file.
C29_ReadyRecordHasFile ==
    \A id \in DOMAIN records :
        records[id].status \in {"validated", "processed"}
            => records[id].csv_path # EmptyPath /\ records[id].csv_path \in DOMAIN fs

\* one record is validated while another has been inserted and has no path yet
C29_Witness ==
    /\ \E id \in DOMAIN records :
          records[id].status = "validated" /\ records[id].csv_path \in DOMAIN fs
    /\ \E id \in DOMAIN records : records[id].csv_path = EmptyPath

\* the error of a response or a record names a date, numeric or movement-type failure
TypeDateFailure(error) ==
    error \notin {NoText, <<"Row limit exceeded">>} /\ error[1] # "Missing columns"

MetricInput == CHOOSE sub \in inbox : TRUE
MetricRows == UseCols(MetricInput.file, REQUIRED(MetricInput.csv_type))

\* the metrics of rows of this type that pass the checks of validate_upload have been computed
Computed(csv_type) ==
    /\ ret.op = "metrics"
    /\ MetricInput.csv_type = csv_type
    /\ TypeDateError(csv_type, MetricRows) = NoText

RECURSIVE Total(_)
\* the sum of a sequence of amounts, left to right
Total(amounts) ==
    IF amounts = <<>> THEN Whole(0)
    ELSE Plus(Total(SubSeq(amounts, 1, Len(amounts) - 1)), amounts[Len(amounts)])

Qty(rows) == [r \in 1..Len(rows) |-> NumVal(rows[r]["qty"])]
QtyTimes(rows, col) ==
    [r \in 1..Len(rows) |-> Times(NumVal(rows[r]["qty"]), NumVal(rows[r][col]))]
OfItem(rows, item) == SelectSeq(rows, LAMBDA row : row["item_id"] = item)
OfTypes(rows, types) == SelectSeq(rows, LAMBDA row : UpperStrip(row["type"]) \in types)
OnDate(rows, col, d) == SelectSeq(rows, LAMBDA row : row[col] = d)
ItemsOf(rows) == {rows[r]["item_id"] : r \in 1..Len(rows)}

\* C23: for every set of validated sales rows, revenue = sum of qty * unit_price over all
\* rows, units_sold = sum of qty, orders = number of distinct invoice ids, and
\* aov = revenue / orders, with aov = 0 when there are no orders.
C23_SalesKpis ==
    Computed("sales") =>
        LET k == ret.data.kpis
            invoices == {MetricRows[r]["invoice_id"] : r \in 1..Len(MetricRows)}
        IN /\ k.revenue = Total(QtyTimes(MetricRows, "unit_price"))
           /\ Whole(k.units_sold) = Total(Qty(MetricRows))
           /\ k.orders = Cardinality(invoices)
           /\ k.aov = IF invoices = {} THEN Whole(0) ELSE Over(k.revenue, Whole(Cardinality(invoices)))

\* the entry of top_items for an item holds the sums over the rows of the item
EntryOf(item) ==
    [item_id |-> item,
     revenue |-> Total(QtyTimes(OfItem(MetricRows, item), "unit_price")),
     units |-> Total(Qty(OfItem(MetricRows, item)))]

\* entry a is ranked strictly above entry b: more revenue, or the same revenue and more units
Above(a, b) ==
    Less(b.revenue, a.revenue) \/ (a.revenue = b.revenue /\ Less(b.units, a.units))

\* C24: top_items holds one entry per item id with the item's summed revenue and units,
\* ordered by revenue descending with ties broken by units descending, and holds at most 10
\* entries: the 10 highest-ranked items when there are more than 10.
C24_TopItems ==
    Computed("sales") =>
        LET top == ret.data.top_items
            items == ItemsOf(MetricRows)
            listed == {top[i].item_id : i \in 1..Len(top)}
        IN /\ Len(top) = Min(Cardinality(items), 10)
           /\ \A i \in 1..Len(top) : top[i].item_id \in items /\ top[i] = EntryOf(top[i].item_id)
           /\ \A i, j \in 1..Len(top) : top[i].item_id = top[j].item_id => i = j
           /\ \A i, j \in 1..Len(top) : i < j => ~Above(top[j], top[i])
           /\ \A out \in items \ listed : \A i \in 1..Len(top) : ~Above(EntryOf(out), top[i])

\* twelve items ranked: ten listed, i7 ahead of i6 on units, i12 kept and i2 and i1 dropped
C24_Witness ==
    /\ Computed("sales")
    /\ Cardinality(ItemsOf(MetricRows)) = 12
    /\ Len(ret.data.top_items) = 10
    /\ ret.data.top_items[5].item_id = "i7" /\ ret.data.top_items[6].item_id = "i6"
    /\ ret.data.top_items[9].item_id = "i3" /\ ret.data.top_items[10].item_id = "i12"

\* C25: for every set of validated inventory rows, on-hand per item is the sum of qty over
\* the item's IN and ADJ rows minus the sum of qty over its OUT rows (ADJ is always added),
\* and every item id of the rows has exactly one inventory_levels entry.
C25_OnHand ==
    Computed("inventory") =>
        LET levels == ret.data.inventory_levels
        IN /\ {levels[i].item_id : i \in 1..Len(levels)} = ItemsOf(MetricRows)
           /\ Len(levels) = Cardinality(ItemsOf(MetricRows))
           /\ \A i \in 1..Len(levels) :
                LET mine == OfItem(MetricRows, levels[i].item_id)
                IN levels[i].on_hand =
                      Plus(Total(Qty(OfTypes(mine, {"IN", "ADJ"}))),
                           Neg(Total(Qty(OfTypes(mine, {"OUT"})))))

\* an item with a receipt of 2, an issue of 1 and an adjustment of -1 has nothing on hand
C25_Witness ==
    /\ Computed("inventory")
    /\ Len(MetricRows) = 3
    /\ \A t \in {"IN", "OUT", "ADJ"} : Len(OfTypes(OfItem(MetricRows, "i1"), {t})) = 1
    /\ \E r \in 1..3 : MetricRows[r]["qty"] = "-1"
    /\ \E r \in 1..3 : MetricRows[r]["qty"] = "2"
    /\ ret.data.inventory_levels = <<[item_id |-> "i1", on_hand |-> Whole(0),
                                      wac |-> Whole(5), value |-> Whole(0)]>>

\* the rows wac is computed from: IN rows, and ADJ rows with a positive quantity
Receipts(rows) ==
    SelectSeq(rows, LAMBDA row : \/ UpperStrip(row["type"]) = "IN"
                                 \/ /\ UpperStrip(row["type"]) = "ADJ"
                                    /\ Less(Whole(0), NumVal(row["qty"])))

\* C26: per item, wac is computed only from IN rows and ADJ rows with positive quantity, as
\* sum(qty * unit_cost) / sum(qty) over them, and is 0 for an item with no such rows; the
\* item's valuation is on_hand * wac; OUT rows never affect wac.
C26_WeightedAverageCost ==
    Computed("inventory") =>
        LET levels == ret.data.inventory_levels
        IN \A i \in 1..Len(levels) :
              LET mine == Receipts(OfItem(MetricRows, levels[i].item_id))
              IN /\ mine = <<>> => levels[i].wac = Whole(0)
                 /\ (mine # <<>> /\ Total(Qty(mine)) # Whole(0)) =>
                       levels[i].wac = Over(Total(QtyTimes(mine, "unit_cost")), Total(Qty(mine)))
                 /\ levels[i].value = Times(levels[i].on_hand, levels[i].wac)

\* IN 100 at 5 and OUT 30 at 7 give on_hand 70, wac 5 and valuation 350
C26_Witness ==
    /\ Computed("inventory")
    /\ MetricInput.file = MkFile(REQ_INV, ReceiptAndIssue)
    /\ ret.data.inventory_levels = <<[item_id |-> "i1", on_hand |-> Whole(70),
                                      wac |-> Whole(5), value |-> Whole(350)]>>

\* C27: cogs is the sum of qty * unit_cost over OUT rows only, at each OUT row's own unit
\* cost; the cogs of the cogs_trend date buckets sum to cogs; and with no OUT rows cogs is 0
\* and cogs_trend is empty.
C27_Cogs ==
    Computed("inventory") =>
        LET outs == OfTypes(MetricRows, {"OUT"})
            trend == ret.data.cogs_trend
        IN /\ ret.data.kpis.cogs = Total(QtyTimes(outs, "unit_cost"))
           /\ Total([i \in 1..Len(trend) |-> trend[i].cogs]) = ret.data.kpis.cogs
           /\ \A i \in 1..Len(trend) :
                trend[i].cogs = Total(QtyTimes(OnDate(outs, "move_date", trend[i].date), "unit_cost"))
           /\ \A i, j \in 1..Len(trend) : trend[i].date = trend[j].date => i = j
           /\ outs = <<>> => ret.data.kpis.cogs = Whole(0) /\ trend = <<>>

\* the issue of 30 at 7 costs 210, not 30 times the weighted-average cost of 5
C27_Witness ==
    /\ Computed("inventory")
    /\ MetricInput.file = MkFile(REQ_INV, ReceiptAndIssue)
    /\ ret.data.kpis.cogs = Whole(210)
    /\ ret.data.cogs_trend = <<[date |-> "2024-01-02", cogs |-> Whole(210)]>>

====
